---- MODULE Spec2Model ----
(***************************************************************************)
(* Model of the preprocessing / analytics wrappers of                      *)
(* covid-epi-image-analysis (src/preprocessing/*.py, src/analytics/*.py).  *)
(*                                                                         *)
(* A DataFrame is a schema (ordered columns with a type) and an unordered  *)
(* multiset of rows: a function from row to its multiplicity.  A cell is   *)
(* NULL (the empty tuple) or a one-element tuple holding the value.        *)
(***************************************************************************)
EXTENDS Integers, Sequences, FiniteSets, TLC

VARIABLES
    df,        \* the table the caller holds (input, then the returned table)
    inp,       \* the table passed to the last transformation
    op,        \* "load", or the last transformation called
    args,      \* the arguments of that call
    trace,     \* intermediate tables / values of the call, for the claims
    printed,   \* what the call printed (the reported counts)
    err,       \* "" or the exception the call raised
    metrics,   \* NoMetrics or the result of assess_quality(df)
    ageIn,     \* the age column handed to the categorize_age UDF
    ageOut,    \* the bands the UDF returned, row by row
    catalog,   \* the session's temporary views: bound name -> table
    registered,\* history: name -> table of its last successful registration
    files,     \* the file system: existing path -> the file stored there
    results    \* NoResults or the dict execute_standard_analytics returned

vars == <<df, inp, op, args, trace, printed, err, metrics, ageIn, ageOut,
          catalog, registered, files, results>>

sessionVars == <<catalog, registered, files, results>>

----------------------------------------------------------------------------
(* Bounds *)

MaxRows == 3          \* rows of a small input table
BigCount == 20000     \* multiplicity of the repeated row of a large table
MaxAge == 61          \* ages handed to the UDF range over MinAge..MaxAge
MinAge == 28
UdfRows == 2          \* rows of the age column handed to the UDF
NAges == 6            \* distinct ages of the largest diagnosis group
MaxFreq == 2          \* patients of one age in that group: 1..MaxFreq

----------------------------------------------------------------------------
(* Cells, rows, tables *)

NULL == <<>>

Cell(v) == <<v>>

IsNull(c) == c = NULL

Val(c) == c[1]

NoMetrics == [none |-> TRUE]

NoArgs == [none |-> TRUE]

NoTrace == [none |-> TRUE]

RECURSIVE SumOver(_, _)
SumOver(f, S) ==
    IF S = {} THEN 0
    ELSE LET x == CHOOSE y \in S : TRUE IN f[x] + SumOver(f, S \ {x})

RECURSIVE SeqSum(_)
SeqSum(s) == IF s = <<>> THEN 0 ELSE Head(s) + SeqSum(Tail(s))

Range(s) == {s[i] : i \in DOMAIN s}

\* df.columns
Columns(t) == [i \in DOMAIN t.schema |-> t.schema[i].name]

ColumnSet(t) == Range(Columns(t))

\* [f.name for f in df.schema.fields if isinstance(f.dataType, NumericType)]
NumericColumns(t) == SelectSeq(Columns(t),
    LAMBDA c : \E i \in DOMAIN t.schema :
                  t.schema[i].name = c /\ t.schema[i].type = "int")

\* df.count()
Count(t) == SumOver(t.rows, DOMAIN t.rows)

\* df.filter(cond): keeps the rows for which cond is TRUE (not FALSE, not NULL)
Filter(t, P(_)) ==
    [t EXCEPT !.rows = [r \in {x \in DOMAIN t.rows : P(x)} |-> t.rows[r]]]

\* a projection that rewrites every row by f; equal images add up
MapRows(t, f(_)) ==
    LET img == {f(r) : r \in DOMAIN t.rows}
    IN  [t EXCEPT !.rows =
            [q \in img |-> SumOver(t.rows, {r \in DOMAIN t.rows : f(r) = q})]]

\* df.dropDuplicates(): one row per group of rows equal on all columns
\* (grouping is null-safe: two NULLs in the same column are equal)
dropDuplicates(t) == [t EXCEPT !.rows = [r \in DOMAIN t.rows |-> 1]]

\* df.withColumn(c, expr): replaces column c, or appends it when absent
withColumn(t, c, type, expr(_)) ==
    LET t2 == MapRows(t, LAMBDA r : (c :> expr(r)) @@ r)
    IN  IF c \in ColumnSet(t) THEN t2
        ELSE [t2 EXCEPT !.schema = Append(t.schema, [name |-> c, type |-> type])]

----------------------------------------------------------------------------
(* Input tables *)

SchemaA == <<[name |-> "age", type |-> "int"],
             [name |-> "finding", type |-> "string"]>>

SchemaB == <<[name |-> "age", type |-> "int"],
             [name |-> "offset", type |-> "int"]>>

NumCells == {NULL, Cell(1), Cell(2)}

FindingCells == {NULL, Cell("COVID"), Cell("Covid-19"), Cell("Pneumonia")}

RowsA == {[age |-> a, finding |-> f] : a \in NumCells, f \in FindingCells}

RowsB == {[age |-> a, offset |-> o] : a \in NumCells, o \in NumCells}

\* the multiset of the rows of a list of rows
BagOf(s) ==
    [r \in Range(s) |-> Cardinality({i \in DOMAIN s : s[i] = r})]

SmallBags(R) == {BagOf(s) : s \in UNION {[1..n -> R] : n \in 0..MaxRows}}

\* a large table: BigCount copies of a complete row and one more row
BigBags(R) ==
    {[r \in {full, x} |-> IF r = full THEN BigCount ELSE 1] :
        full \in {q \in R : \A c \in DOMAIN q : ~IsNull(q[c])},
        x \in {q \in R : \E c \in DOMAIN q : IsNull(q[c])}}

Tables ==
    {[schema |-> SchemaA, rows |-> b] : b \in SmallBags(RowsA) \cup BigBags(RowsA)}
    \cup
    {[schema |-> SchemaB, rows |-> b] : b \in SmallBags(RowsB) \cup BigBags(RowsB)}

----------------------------------------------------------------------------
(* SQL three-valued conditions: "T", "F" or "N" (NULL) *)

Ge3(c, b) == IF IsNull(c) THEN "N" ELSE IF Val(c) >= b THEN "T" ELSE "F"

Le3(c, b) == IF IsNull(c) THEN "N" ELSE IF Val(c) <= b THEN "T" ELSE "F"

Eq3(c, v) == IF IsNull(c) THEN "N" ELSE IF Val(c) = v THEN "T" ELSE "F"

And3(a, b) ==
    IF a = "F" \/ b = "F" THEN "F"
    ELSE IF a = "N" \/ b = "N" THEN "N" ELSE "T"

\* F.when(cond, value) without .otherwise(): NULL where the condition fails
WhenNoOtherwise(cond, value, other) == IF cond = "T" THEN Cell(value) ELSE NULL

\* F.when(cond, value).otherwise(other)
WhenOtherwise(cond, value, other) == IF cond = "T" THEN Cell(value) ELSE other

----------------------------------------------------------------------------
(* cleaner.py: clean_data *)

\* the strings a caller's predicate F.upper(c).contains("COVID") accepts
UpperContainsCovid == {"COVID", "Covid-19", "COVID-19"}

\* pattern(F.col(column)) for a callable pattern
ApplyPredicate(name, c) ==
    IF IsNull(c) THEN "N"
    ELSE IF name = "upper_contains_covid" /\ Val(c) \in UpperContainsCovid
         THEN "T" ELSE "F"

Lit(v) == [kind |-> "lit", v |-> v]

Pred(n) == [kind |-> "pred", v |-> n]

Rule(p, v) == [pattern |-> p, value |-> v]

\* callable(pattern)
callable(pattern) == pattern.kind = "pred"

\* OutlierLoop with an exclusive upper bound
RECURSIVE OutlierLoopStrict(_, _, _)
OutlierLoopStrict(t, rules, out) ==
    IF rules = <<>> THEN [df |-> t, printed |-> out, err |-> ""]
    ELSE LET column == Head(rules).column
         IN  IF column \notin ColumnSet(t)
             THEN [df |-> t, printed |-> out, err |-> "AnalysisException"]
             ELSE LET t2 == Filter(t, LAMBDA r :
                               /\ ~IsNull(r[column])
                               /\ Val(r[column]) >= Head(rules).lo
                               /\ Val(r[column]) < Head(rules).hi)
                  IN  OutlierLoopStrict(t2, Tail(rules),
                         Append(out, [what |-> "outliers", column |-> column,
                                      n |-> Count(t) - Count(t2)]))

\* lines 64-70: the loop over remove_outliers.items()
RECURSIVE OutlierLoop(_, _, _)
OutlierLoop(t, rules, out) ==
    IF rules = <<>> THEN [df |-> t, printed |-> out, err |-> ""]
    ELSE LET column == Head(rules).column
             lower_bound == Head(rules).lo
             upper_bound == Head(rules).hi
         IN  IF column \notin ColumnSet(t)
             THEN [df |-> t, printed |-> out, err |-> "AnalysisException"]
             ELSE LET initial_count == Count(t)
                      t2 == Filter(t, LAMBDA r :
                               And3(Ge3(r[column], lower_bound),
                                    Le3(r[column], upper_bound)) = "T")
                      final_count == Count(t2)
                  IN  OutlierLoop(t2, Tail(rules),
                         Append(out, [what |-> "outliers", column |-> column,
                                      n |-> initial_count - final_count]))

\* RuleLoop writing the result to a column "standardized" instead of column
RECURSIVE RuleLoopNewColumn(_, _, _)
RuleLoopNewColumn(t, column, rules) ==
    IF rules = <<>> THEN t
    ELSE LET pattern == Head(rules).pattern
             t2 == withColumn(t, "standardized", "string", LAMBDA r :
                      WhenOtherwise(IF callable(pattern)
                                    THEN ApplyPredicate(pattern.v, r[column])
                                    ELSE Eq3(r[column], pattern.v),
                                    Head(rules).value, r[column]))
         IN  RuleLoopNewColumn(t2, column, Tail(rules))

\* lines 76-90: the loop over the rules of one column
RECURSIVE RuleLoop(_, _, _)
RuleLoop(t, column, rules) ==
    IF rules = <<>> THEN t
    ELSE LET pattern == Head(rules).pattern
             standardized_value == Head(rules).value
             t2 == IF callable(pattern)
                   THEN withColumn(t, column, "string", LAMBDA r :
                           WhenOtherwise(ApplyPredicate(pattern.v, r[column]),
                                         standardized_value, r[column]))
                   ELSE withColumn(t, column, "string", LAMBDA r :
                           WhenOtherwise(Eq3(r[column], pattern.v),
                                         standardized_value, r[column]))
         IN  RuleLoop(t2, column, Tail(rules))

\* StandardizeLoop leaving the loop at the first column that is not present
RECURSIVE StandardizeLoopStop(_, _)
StandardizeLoopStop(t, cats) ==
    IF cats = <<>> THEN t
    ELSE IF Head(cats).column \in ColumnSet(t)
         THEN StandardizeLoopStop(RuleLoop(t, Head(cats).column, Head(cats).rules),
                                  Tail(cats))
         ELSE t

\* lines 74-75: the loop over standardize_categories.items()
RECURSIVE StandardizeLoop(_, _)
StandardizeLoop(t, cats) ==
    IF cats = <<>> THEN t
    ELSE LET column == Head(cats).column
             rules == Head(cats).rules
         IN  IF column \in ColumnSet(t)
             THEN StandardizeLoop(RuleLoop(t, column, rules), Tail(cats))
             ELSE StandardizeLoop(t, Tail(cats))

\* DuplicateStep with a de-duplication that never equates rows holding a NULL
DuplicateStepNullUnsafe(t) ==
    LET t1 == [t EXCEPT !.rows =
                  [r \in DOMAIN t.rows |->
                      IF \E c \in DOMAIN r : IsNull(r[c]) THEN t.rows[r] ELSE 1]]
    IN  [df |-> t1,
         printed |-> <<[what |-> "duplicates", column |-> "",
                        n |-> Count(t) - Count(t1)]>>]

\* lines 56-60: dropDuplicates and the printed count
DuplicateStep(t) ==
    LET initial_count == Count(t)
        t1 == dropDuplicates(t)
        final_count == Count(t1)
    IN  [df |-> t1,
         printed |-> <<[what |-> "duplicates", column |-> "",
                        n |-> initial_count - final_count]>>]

clean_data(t, remove_duplicates, remove_outliers, standardize_categories) ==
    LET d  == IF remove_duplicates THEN DuplicateStep(t)
              ELSE [df |-> t, printed |-> <<>>]
        o  == IF remove_outliers # <<>>
              THEN OutlierLoop(d.df, remove_outliers, d.printed)
              ELSE [df |-> d.df, printed |-> d.printed, err |-> ""]
        t3 == IF standardize_categories # <<>>
              THEN StandardizeLoop(o.df, standardize_categories)
              ELSE o.df
    IN  [df |-> IF o.err # "" THEN t ELSE t3,
         err |-> o.err,
         printed |-> o.printed,
         trace |-> [afterDup |-> d.df, afterOutliers |-> o.df]]

Bound(c, lo, hi) == [column |-> c, lo |-> lo, hi |-> hi]

\* the remove_outliers mappings tried (an empty mapping stands for None too)
OutlierRuleSets ==
    { <<>>,
      <<Bound("age", 2, 2)>>,
      <<Bound("age", 1, 2)>>,
      <<Bound("age", 2, 1)>>,
      <<Bound("offset", 1, 1)>>,
      <<Bound("age", 2, 2), Bound("offset", 1, 1)>>,
      <<Bound("offset", 1, 1), Bound("age", 2, 2)>> }

Cat(c, rules) == [column |-> c, rules |-> rules]

CovidRule == Rule(Pred("upper_contains_covid"), "COVID-19")

\* the standardize_categories mappings tried
CategoryRuleSets ==
    { <<>>,
      <<Cat("finding", <<CovidRule>>)>>,
      <<Cat("finding", <<Rule(Lit("COVID"), "Covid-19"),
                         Rule(Lit("Covid-19"), "COVID-19")>>)>>,
      <<Cat("finding", <<Rule(Lit("Covid-19"), "COVID-19"),
                         Rule(Lit("COVID"), "Covid-19")>>)>>,
      <<Cat("finding", <<Rule(Lit("Pneumonia"), "COVID"), CovidRule>>)>>,
      <<Cat("view", <<Rule(Lit("PA"), "AP")>>),
        Cat("finding", <<CovidRule>>)>> }

----------------------------------------------------------------------------
(* missing_values.py: handle_missing_values *)

NoThreshold == <<>>

\* sum([F.when(F.col(c).isNull(), 1).otherwise(0) for c in df.columns])
null_counts(t, r) == Cardinality({i \in DOMAIN t.schema : IsNull(r[t.schema[i].name])})

\* ThresholdStep keeping only the rows strictly below the threshold
ThresholdStepStrict(t, drop_threshold) ==
    IF /\ drop_threshold # NoThreshold
       /\ 0 <= drop_threshold[1]
       /\ drop_threshold[1] <= drop_threshold[2]
    THEN Filter(t, LAMBDA r :
            null_counts(t, r) * drop_threshold[2]
                < drop_threshold[1] * Len(t.schema))
    ELSE t

\* lines 53-60; the threshold is the fraction thr[1] / thr[2]
ThresholdStep(t, drop_threshold) ==
    IF /\ drop_threshold # NoThreshold
       /\ 0 <= drop_threshold[1]
       /\ drop_threshold[1] <= drop_threshold[2]
    THEN LET total_columns == Len(t.schema)
         IN  Filter(t, LAMBDA r :
                null_counts(t, r) * drop_threshold[2]
                    <= drop_threshold[1] * total_columns)
    ELSE t

\* df.na.fill({column: value, ...}): coalesce(column, value) per named column
naFill(t, values) ==
    MapRows(t, LAMBDA r :
        [c \in DOMAIN r |->
            IF c \in DOMAIN values /\ IsNull(r[c]) THEN Cell(values[c])
            ELSE r[c]])

\* df.na.drop(): keeps the rows without any NULL
naDrop(t) == Filter(t, LAMBDA r : \A c \in DOMAIN r : ~IsNull(r[c]))

\* number of rows whose column c holds cell x
GroupCount(t, c, x) == SumOver(t.rows, {r \in DOMAIN t.rows : r[c] = x})

Groups(t, c) == {r[c] : r \in DOMAIN t.rows}

NonNull(t, c) == {Val(x) : x \in Groups(t, c) \ {NULL}}

\* F.count(column): the number of non-null values
CountCol(t, c) == Count(t) - GroupCount(t, c, NULL)

RECURSIVE WeightedSum(_, _, _)
WeightedSum(t, c, S) ==
    IF S = {} THEN 0
    ELSE LET v == CHOOSE y \in S : TRUE
         IN  v * GroupCount(t, c, Cell(v)) + WeightedSum(t, c, S \ {v})

\* the k-th smallest non-null value of column c (1-based)
KthValue(t, c, k) ==
    CHOOSE v \in NonNull(t, c) :
        /\ SumOver([x \in NonNull(t, c) |-> GroupCount(t, c, Cell(x))],
                   {x \in NonNull(t, c) : x <= v}) >= k
        /\ SumOver([x \in NonNull(t, c) |-> GroupCount(t, c, Cell(x))],
                   {x \in NonNull(t, c) : x < v}) < k

\* a statistic is NULL or the fraction <<numerator, denominator>>
NoStat == <<>>

\* F.mean(column)
Mean(t, c) ==
    IF CountCol(t, c) = 0 THEN NoStat
    ELSE <<WeightedSum(t, c, NonNull(t, c)), CountCol(t, c)>>

\* F.median(column): the middle value, or the mean of the two middle values
Median(t, c) ==
    LET n == CountCol(t, c)
    IN  IF n = 0 THEN NoStat
        ELSE IF n % 2 = 1 THEN <<KthValue(t, c, (n + 1) \div 2), 1>>
        ELSE <<KthValue(t, c, n \div 2) + KthValue(t, c, n \div 2 + 1), 2>>

\* the groups groupBy(column).count().orderBy(F.desc("count")) may list
\* first: those of the highest count, the NULL group among them
ModeCandidates(t, c) ==
    {x \in Groups(t, c) :
        \A y \in Groups(t, c) : GroupCount(t, c, y) <= GroupCount(t, c, x)}

\* lit(stat).cast(IntegerType): the fraction truncated (values are >= 0)
CastInt(stat) == stat[1] \div stat[2]

\* lines 96-112: the loop over numeric_columns; first[c] is the group that
\* the ordered group counts list first for column c
RECURSIVE StatLoop(_, _, _, _, _)
StatLoop(t, cols, strategy, first, out) ==
    IF cols = <<>> THEN [df |-> t, printed |-> out, err |-> ""]
    ELSE LET column == Head(cols)
         IN  IF strategy = "mode" /\ DOMAIN t.rows = {}
             THEN [df |-> t, printed |-> out, err |-> "TypeError"]
             ELSE LET stat_value ==
                          IF strategy = "median" THEN Median(t, column)
                          ELSE IF strategy = "mean" THEN Mean(t, column)
                          ELSE IF IsNull(first[column]) THEN NoStat
                          ELSE <<Val(first[column]), 1>>
                  IN  IF stat_value # NoStat
                      THEN StatLoop(
                             naFill(t, column :> CastInt(stat_value)),
                             Tail(cols), strategy, first,
                             Append(out, [what |-> strategy, column |-> column,
                                          n |-> CastInt(stat_value)]))
                      ELSE StatLoop(t, Tail(cols), strategy, first, out)

\* lines 62-67
FillStep(t, fill_values) ==
    IF fill_values # <<>> THEN naFill(t, fill_values) ELSE t

\* lines 69-112
StrategyStep(t, strategy, first) ==
    LET numeric_columns == NumericColumns(t)
    IN  IF strategy = "drop"
        THEN [df |-> naDrop(t), err |-> "",
              printed |-> <<[what |-> "drop", column |-> "",
                             n |-> Count(t) - Count(naDrop(t))]>>]
        ELSE IF strategy = "zero"
        THEN [df |-> IF numeric_columns # <<>>
                     THEN naFill(t, [c \in Range(numeric_columns) |-> 0])
                     ELSE t,
              err |-> "", printed |-> <<>>]
        ELSE IF strategy \in {"median", "mean", "mode"}
        THEN StatLoop(t, numeric_columns, strategy, first, <<>>)
        ELSE [df |-> t, err |-> "", printed |-> <<>>]

\* handle_missing_values applying the strategy before the explicit fills
handle_missing_values_StrategyFirst(t, strategy, fill_values, drop_threshold, first) ==
    LET t1 == ThresholdStep(t, drop_threshold)
        s  == StrategyStep(t1, strategy, first)
        t2 == FillStep(s.df, fill_values)
    IN  [df |-> IF s.err # "" THEN t ELSE t2,
         err |-> s.err,
         printed |-> s.printed,
         trace |-> [afterThreshold |-> t1, afterFill |-> t2]]

handle_missing_values(t, strategy, fill_values, drop_threshold, first) ==
    LET t1 == ThresholdStep(t, drop_threshold)
        t2 == FillStep(t1, fill_values)
        s  == StrategyStep(t2, strategy, first)
    IN  [df |-> IF s.err # "" THEN t ELSE s.df,
         err |-> s.err,
         printed |-> s.printed,
         trace |-> [afterThreshold |-> t1, afterFill |-> t2]]

\* the orders the engine may give the group counts of the numeric columns
FirstGroups(t, strategy) ==
    IF strategy = "mode" /\ DOMAIN t.rows # {}
    THEN {f \in [Range(NumericColumns(t)) ->
                    UNION {Groups(t, c) : c \in Range(NumericColumns(t))}] :
             \A c \in DOMAIN f : f[c] \in ModeCandidates(t, c)}
    ELSE {<<>>}

Strategies == {"median", "mean", "mode", "zero", "drop", "none"}

Thresholds == {NoThreshold, <<0, 1>>, <<1, 2>>, <<1, 1>>, <<3, 2>>}

\* the fill_values mappings tried on table t: they name columns of t and
\* give values of the column's type
FillValueSets(t) ==
    {fv \in { <<>>,
              [age |-> 9],
              [finding |-> "Unknown"],
              [offset |-> 9],
              [age |-> 9, finding |-> "Unknown"] } :
        DOMAIN fv \subseteq ColumnSet(t)}

----------------------------------------------------------------------------
(* quality_assessment.py: assess_quality *)

RECURSIVE Gcd(_, _)
Gcd(a, b) == IF b = 0 THEN a ELSE Gcd(b, a % b)

\* round(n / d, 0) for n >= 0, d > 0 (a tie goes to the even neighbour)
RoundDiv(n, d) ==
    LET q == n \div d
        r == n % d
    IN  IF 2 * r > d \/ (2 * r = d /\ q % 2 = 1) THEN q + 1 ELSE q

\* 40000 * p < (2k + 1)^2 * q, that is 100 * sqrt(p / q) < k + 1/2
BelowHalf(p, q, k) == 40000 * p < (2 * k + 1) * (2 * k + 1) * q

RECURSIVE SqrtUpper(_, _, _)
SqrtUpper(p, q, k) ==
    IF BelowHalf(p, q, k) THEN k ELSE SqrtUpper(p, q, 2 * k + 1)

RECURSIVE SqrtBisect(_, _, _, _)
SqrtBisect(p, q, lo, hi) ==
    IF lo = hi THEN lo
    ELSE LET mid == (lo + hi) \div 2
         IN  IF BelowHalf(p, q, mid) THEN SqrtBisect(p, q, lo, mid)
             ELSE SqrtBisect(p, q, mid + 1, hi)

\* round(100 * sqrt(p / q), 0): the smallest k with 100 * sqrt(p/q) < k + 1/2
RoundSqrt100(p, q) == SqrtBisect(p, q, 0, SqrtUpper(p, q, 1))

\* sum of the squares of the non-null values of column c
RECURSIVE WeightedSquares(_, _, _)
WeightedSquares(t, c, S) ==
    IF S = {} THEN 0
    ELSE LET v == CHOOSE y \in S : TRUE
         IN  v * v * GroupCount(t, c, Cell(v)) + WeightedSquares(t, c, S \ {v})

\* F.stddev(column): the sample variance as a reduced fraction, NULL for
\* fewer than two values
Variance(t, c) ==
    LET n  == CountCol(t, c)
        s1 == WeightedSum(t, c, NonNull(t, c))
        s2 == WeightedSquares(t, c, NonNull(t, c))
        p  == n * s2 - s1 * s1
        g  == Gcd(n, n - 1) * Gcd(p, n) * Gcd(p \div Gcd(p, n), n - 1)
    IN  IF n < 2 THEN NoStat
        ELSE IF p = 0 THEN <<0, 1>>
        ELSE <<(p \div Gcd(p, n)) \div Gcd(p \div Gcd(p, n), n - 1),
               (n \div Gcd(p, n)) * ((n - 1) \div Gcd(p \div Gcd(p, n), n - 1))>>

\* F.min(column), F.max(column)
MinCol(t, c) ==
    IF NonNull(t, c) = {} THEN NULL
    ELSE Cell(CHOOSE v \in NonNull(t, c) : \A w \in NonNull(t, c) : v <= w)

MaxCol(t, c) ==
    IF NonNull(t, c) = {} THEN NULL
    ELSE Cell(CHOOSE v \in NonNull(t, c) : \A w \in NonNull(t, c) : v >= w)

\* round(stats["mean"], 2) if stats["mean"] else None, in hundredths
MeanSummary(t, c) ==
    LET m == Mean(t, c)
    IN  IF m # NoStat /\ m[1] # 0 THEN Cell(RoundDiv(100 * m[1], m[2]))
        ELSE NULL

\* round(stats["stddev"], 2) if stats["stddev"] else None, in hundredths
StddevSummary(t, c) ==
    LET v == Variance(t, c)
    IN  IF v # NoStat /\ v[1] # 0 THEN Cell(RoundSqrt100(v[1], v[2]))
        ELSE NULL

\* the metrics dictionary; percentages and rounded statistics are kept in
\* hundredths (10000 is 100.00)
assess_quality(t) ==
    LET total_records == Count(t)
        total_columns == Len(t.schema)
        missing_values ==
            [c \in ColumnSet(t) |-> Count(Filter(t, LAMBDA r : IsNull(r[c])))]
        total_cells == total_records * total_columns
        missing_cells == SumOver(missing_values, DOMAIN missing_values)
    IN  IF total_cells = 0 THEN [error |-> "ZeroDivisionError"]
        ELSE [error |-> "",
              total_records |-> total_records,
              total_columns |-> total_columns,
              missing_values |-> missing_values,
              completeness_percentage |->
                  RoundDiv((total_cells - missing_cells) * 10000, total_cells),
              duplicate_rows |-> Count(t) - Count(dropDuplicates(t)),
              column_types |->
                  [i \in DOMAIN t.schema |-> t.schema[i].type],
              numeric_summary |->
                  [c \in Range(NumericColumns(t)) |->
                      [count |-> CountCol(t, c),
                       mean |-> MeanSummary(t, c),
                       stddev |-> StddevSummary(t, c),
                       min |-> MinCol(t, c),
                       max |-> MaxCol(t, c)]]]

----------------------------------------------------------------------------
(* age_categorization.py: categorize_age *)

\* categorize_age with the band limits on the wrong side
categorize_age_Inclusive(age) ==
    IF IsNull(age) THEN NULL
    ELSE IF Val(age) <= 30 THEN Cell("Junior")
    ELSE IF Val(age) <= 60 THEN Cell("Middle")
    ELSE Cell("Senior")

categorize_age(age) ==
    IF IsNull(age) THEN NULL
    ELSE IF Val(age) < 30 THEN Cell("Junior")
    ELSE IF Val(age) < 60 THEN Cell("Middle")
    ELSE Cell("Senior")

----------------------------------------------------------------------------
(* sql_interface.py: register_table.  The session catalog of temporary     *)
(* views is a function from the bound names to the tables bound to them.   *)

NoCatalog == <<>>

NoFiles == <<>>

NoResults == [none |-> TRUE]

NoTable == [none |-> TRUE]

TableNames == {"patients", "patients_clean"}

\* df.createOrReplaceTempView(name): binds the name, bound or not
createOrReplaceTempView(cat, t, name) ==
    [catalog |-> (name :> t) @@ cat, err |-> ""]

\* createTempView that overwrites a bound name instead of raising
createTempViewOverwrite(cat, t, name) ==
    [catalog |-> (name :> t) @@ cat, err |-> ""]

\* df.createTempView(name): raises when the name is already bound
createTempView(cat, t, name) ==
    IF name \in DOMAIN cat
    THEN [catalog |-> cat, err |-> "AnalysisException"]
    ELSE [catalog |-> (name :> t) @@ cat, err |-> ""]

register_table(cat, t, table_name, replace) ==
    LET res == IF replace THEN createOrReplaceTempView(cat, t, table_name)
               ELSE createTempView(cat, t, table_name)
    IN  [catalog |-> res.catalog,
         err |-> res.err,
         printed |-> IF res.err = ""
                     THEN <<[what |-> "registered", column |-> table_name,
                             n |-> 0]>>
                     ELSE <<>>]

----------------------------------------------------------------------------
(* data_loader.py: load_dataset.  A file is the format it was written in   *)
(* and the table it holds; a CSV file holds it as text, one line per row   *)
(* after the line of column names, a NULL as an empty field.               *)

SupportedFormats == {"csv", "parquet", "json", "orc", "avro"}

\* schema=None
NoSchema == <<>>

SchemaText == <<[name |-> "age", type |-> "string"],
                [name |-> "finding", type |-> "string"]>>

DefaultNames == <<"_c0", "_c1">>

Digits == <<"0", "1", "2", "3", "4", "5", "6", "7", "8", "9">>

\* the text of value v of a column of type ty
ToText(ty, v) == IF ty = "int" THEN Digits[v + 1] ELSE v

\* the cell a field of text s makes in a column of type ty (NULL: malformed)
FromText(ty, s) ==
    IF ty = "string" THEN Cell(s)
    ELSE IF \E n \in DOMAIN Digits : Digits[n] = s
         THEN Cell((CHOOSE n \in DOMAIN Digits : Digits[n] = s) - 1)
         ELSE NULL

IndexOf(names, k) == CHOOSE i \in DOMAIN names : names[i] = k

TypeOf(schema, k) == schema[IndexOf([i \in DOMAIN schema |-> schema[i].name], k)].type

AddRow(b, r) ==
    [q \in DOMAIN b \cup {r} |->
        (IF q \in DOMAIN b THEN b[q] ELSE 0) + (IF q = r THEN 1 ELSE 0)]

\* the lines of the file as rows of text fields under the column names cols;
\* without header=True the line of column names is one more row
CsvLines(t, cols, header) ==
    LET names == Columns(t)
        line(r) == [k \in Range(cols) |->
                      LET c == names[IndexOf(cols, k)]
                      IN  IF IsNull(r[c]) THEN NULL
                          ELSE Cell(ToText(TypeOf(t.schema, c), Val(r[c])))]
        first == [k \in Range(cols) |-> Cell(names[IndexOf(cols, k)])]
        data == MapRows(t, line).rows
    IN  IF header THEN data ELSE AddRow(data, first)

\* inferSchema: a column is int when it has fields and all of them are ints
InferType(lines, k) ==
    LET fields == {Val(r[k]) : r \in {q \in DOMAIN lines : ~IsNull(q[k])}}
    IN  IF fields # {} /\ \A x \in fields : FromText("int", x) # NULL
        THEN "int" ELSE "string"

\* spark.read.csv(path, header, schema, inferSchema, mode) on a CSV file
CsvRead(t, header, schema, inferSchema, mode) ==
    LET cols == IF schema # NoSchema
                THEN [i \in DOMAIN schema |-> schema[i].name]
                ELSE IF header THEN Columns(t) ELSE DefaultNames
        lines == CsvLines(t, cols, header)
        types == [k \in Range(cols) |->
                    IF schema # NoSchema THEN TypeOf(schema, k)
                    ELSE IF inferSchema THEN InferType(lines, k)
                    ELSE "string"]
        parsed(r) == [k \in Range(cols) |->
                        IF IsNull(r[k]) THEN NULL
                        ELSE FromText(types[k], Val(r[k]))]
        malformed(r) == \E k \in Range(cols) : ~IsNull(r[k]) /\ IsNull(parsed(r)[k])
        text == [schema |-> [i \in DOMAIN cols |->
                                [name |-> cols[i], type |-> types[cols[i]]]],
                 rows |-> lines]
        kept == IF mode = "DROPMALFORMED"
                THEN Filter(text, LAMBDA r : ~malformed(r))
                ELSE text
    IN  MapRows(kept, parsed)

\* what a text reader makes of a file of another format
GarbledTable ==
    [schema |-> <<[name |-> "_corrupt_record", type |-> "string"]>>,
     rows |-> <<>>]

\* spark.read.<reader>(path, ...): the table of a file of the reader's
\* format; on a file of another format the binary readers raise and the
\* text readers return unusable rows
Read(fs, reader, path, options) ==
    LET file == fs[path]
        call == [reader |-> reader, path |-> path, options |-> options]
    IN  IF file.format = reader
        THEN [df |-> IF reader = "csv"
                     THEN CsvRead(file.table, options.header, options.schema,
                                  options.inferSchema, options.mode)
                     ELSE file.table,
              err |-> "", reads |-> <<call>>]
        ELSE IF reader \in {"csv", "json"}
        THEN [df |-> GarbledTable, err |-> "", reads |-> <<call>>]
        ELSE [df |-> NoTable, err |-> "AnalysisException", reads |-> <<call>>]

CsvOptions(header, infer_schema, schema, mode) ==
    [header |-> header,
     schema |-> schema,
     inferSchema |-> IF schema = NoSchema THEN infer_schema ELSE FALSE,
     mode |-> mode,
     ignoreTrailingWhiteSpace |-> TRUE]

\* load_dataset that looks at the format tag before the path
load_dataset_FormatFirst(fs, file_path, format, header, infer_schema, schema, mode) ==
    IF format \notin {"csv", "parquet", "json", "orc", "avro"}
    THEN [df |-> NoTable, err |-> "ValueError", reads |-> <<>>]
    ELSE IF file_path \notin DOMAIN fs
    THEN [df |-> NoTable, err |-> "FileNotFoundError", reads |-> <<>>]
    ELSE IF format = "csv"
    THEN Read(fs, "csv", file_path,
              CsvOptions(header, infer_schema, schema, mode))
    ELSE Read(fs, format, file_path, NoArgs)

load_dataset(fs, file_path, format, header, infer_schema, schema, mode) ==
    IF file_path \notin DOMAIN fs
    THEN [df |-> NoTable, err |-> "FileNotFoundError", reads |-> <<>>]
    ELSE IF format = "csv"
    THEN Read(fs, "csv", file_path,
              CsvOptions(header, infer_schema, schema, mode))
    ELSE IF format = "parquet" THEN Read(fs, "parquet", file_path, NoArgs)
    ELSE IF format = "json" THEN Read(fs, "json", file_path, NoArgs)
    ELSE IF format = "orc" THEN Read(fs, "orc", file_path, NoArgs)
    ELSE IF format = "avro" THEN Read(fs, "avro", file_path, NoArgs)
    ELSE [df |-> NoTable, err |-> "ValueError", reads |-> <<>>]

----------------------------------------------------------------------------
(* sql_interface.py: execute_standard_analytics.  The result of a query is *)
(* the table it returns, rows unordered, or the exception spark.sql raises *)
(* when it analyses the query text.                                        *)

QueryFails == [df |-> NoTable, err |-> "AnalysisException"]

\* SELECT cols, COUNT(*) AS name FROM t GROUP BY cols (grouping is null-safe)
GroupByCount(t, cols, name) ==
    LET key(r) == [c \in cols |-> r[c]]
        keys == {key(r) : r \in DOMAIN t.rows}
        n(k) == SumOver(t.rows, {r \in DOMAIN t.rows : key(r) = k})
    IN  [row \in {(name :> Cell(n(k))) @@ k : k \in keys} |-> 1]

\* AVG(c): NULL, or the mean as a fraction in lowest terms
Avg(t, c) ==
    LET m == Mean(t, c)
    IN  IF m = NoStat THEN NULL
        ELSE Cell(<<m[1] \div Gcd(m[1], m[2]), m[2] \div Gcd(m[1], m[2])>>)

\* Query 1: patients, mean, least and greatest age of every finding
Query1(t) ==
    IF ~({"finding", "age"} \subseteq ColumnSet(t)) THEN QueryFails
    ELSE LET group(f) == Filter(t, LAMBDA r : r.finding = f)
             row(f) == [finding |-> f,
                        patient_count |-> Cell(Count(group(f))),
                        avg_age |-> Avg(group(f), "age"),
                        min_age |-> MinCol(group(f), "age"),
                        max_age |-> MaxCol(group(f), "age")]
         IN  [df |-> [schema |-> <<[name |-> "finding", type |-> "string"],
                                   [name |-> "patient_count", type |-> "int"],
                                   [name |-> "avg_age", type |-> "double"],
                                   [name |-> "min_age", type |-> "int"],
                                   [name |-> "max_age", type |-> "int"]>>,
                      rows |-> [q \in {row(f) : f \in Groups(t, "finding")} |-> 1]],
              err |-> ""]

\* Query 2: patients of every (sex, finding)
Query2(t) ==
    IF ~({"sex", "finding"} \subseteq ColumnSet(t)) THEN QueryFails
    ELSE [df |-> [schema |-> <<[name |-> "sex", type |-> "string"],
                               [name |-> "finding", type |-> "string"],
                               [name |-> "count", type |-> "int"]>>,
                  rows |-> GroupByCount(t, {"sex", "finding"}, "count")],
          err |-> ""]

\* Query 3: the outer SELECT lists finding and age beside COUNT(*) and has
\* no GROUP BY, which Spark's analyser rejects whatever the table holds:
\* spark.sql raises before the ranked subquery is ever run
Query3(t) == QueryFails

\* Query 4: patients of every (finding, year, month) among the dated rows
Query4(t) ==
    IF ~({"finding", "date"} \subseteq ColumnSet(t)) THEN QueryFails
    ELSE LET dated == Filter(t, LAMBDA r : ~IsNull(r.date))
             months == MapRows(dated, LAMBDA r :
                          [finding |-> r.finding,
                           year |-> Cell(Val(r.date).year),
                           month |-> Cell(Val(r.date).month)])
         IN  [df |-> [schema |-> <<[name |-> "finding", type |-> "string"],
                                   [name |-> "year", type |-> "int"],
                                   [name |-> "month", type |-> "int"],
                                   [name |-> "count", type |-> "int"]>>,
                      rows |-> GroupByCount(months, {"finding", "year", "month"},
                                            "count")],
              err |-> ""]

\* Query 5: patients of every (view, finding)
Query5(t) ==
    IF ~({"view", "finding"} \subseteq ColumnSet(t)) THEN QueryFails
    ELSE [df |-> [schema |-> <<[name |-> "view", type |-> "string"],
                               [name |-> "finding", type |-> "string"],
                               [name |-> "count", type |-> "int"]>>,
                  rows |-> GroupByCount(t, {"view", "finding"}, "count")],
          err |-> ""]

QueryNames == <<"diagnosis_summary", "gender_diagnosis",
                "top_ages_per_diagnosis", "temporal_trends", "view_diagnosis">>

\* the queries run in order; the first exception leaves the function and
\* the dict built so far is lost
execute_standard_analytics(cat, table_name) ==
    IF table_name \notin DOMAIN cat
    THEN [results |-> NoResults, err |-> "AnalysisException", done |-> <<>>]
    ELSE LET t == cat[table_name]
             qs == <<Query1(t), Query2(t), Query3(t), Query4(t), Query5(t)>>
             failed == {i \in DOMAIN qs : qs[i].err # ""}
             stop == CHOOSE i \in failed : \A j \in failed : i <= j
         IN  IF failed = {}
             THEN [results |-> [diagnosis_summary |-> qs[1].df,
                                gender_diagnosis |-> qs[2].df,
                                top_ages_per_diagnosis |-> qs[3].df,
                                temporal_trends |-> qs[4].df,
                                view_diagnosis |-> qs[5].df],
                   err |-> "", done |-> QueryNames]
             ELSE [results |-> NoResults, err |-> qs[stop].err,
                   done |-> SubSeq(QueryNames, 1, stop - 1)]

----------------------------------------------------------------------------
(* The state machine: a table is loaded, one transformation is called on   *)
(* it, and the table the caller holds can be assessed.  fill_values name   *)
(* columns of the table and carry values of the column's type.             *)

Init ==
    /\ df \in Tables
    /\ inp = df
    /\ op = "load"
    /\ args = NoArgs
    /\ trace = NoTrace
    /\ printed = <<>>
    /\ err = ""
    /\ metrics = NoMetrics
    /\ ageIn = <<>>
    /\ ageOut = <<>>
    /\ catalog = NoCatalog
    /\ registered = NoCatalog
    /\ files = NoFiles
    /\ results = NoResults

CleanData ==
    /\ op = "load"
    /\ metrics = NoMetrics
    /\ \E remove_duplicates \in BOOLEAN,
          remove_outliers \in OutlierRuleSets,
          standardize_categories \in CategoryRuleSets :
          LET res == clean_data(df, remove_duplicates, remove_outliers,
                                standardize_categories)
          IN  /\ op' = "clean_data"
              /\ args' = [remove_duplicates |-> remove_duplicates,
                          remove_outliers |-> remove_outliers,
                          standardize_categories |-> standardize_categories]
              /\ inp' = df
              /\ df' = res.df
              /\ err' = res.err
              /\ printed' = res.printed
              /\ trace' = res.trace
    /\ UNCHANGED <<metrics, ageIn, ageOut>>
    /\ UNCHANGED sessionVars

HandleMissingValues ==
    /\ op = "load"
    /\ metrics = NoMetrics
    /\ \E strategy \in Strategies,
          fill_values \in FillValueSets(df),
          drop_threshold \in Thresholds :
          LET t1 == ThresholdStep(df, drop_threshold)
              t2 == FillStep(t1, fill_values)
          IN  \E first \in FirstGroups(t2, strategy) :
                LET res == handle_missing_values(df, strategy, fill_values,
                                                 drop_threshold, first)
                IN  /\ op' = "handle_missing_values"
                    /\ args' = [strategy |-> strategy,
                                fill_values |-> fill_values,
                                drop_threshold |-> drop_threshold,
                                first |-> first]
                    /\ inp' = df
                    /\ df' = res.df
                    /\ err' = res.err
                    /\ printed' = res.printed
                    /\ trace' = res.trace
    /\ UNCHANGED <<metrics, ageIn, ageOut>>
    /\ UNCHANGED sessionVars

AssessQuality ==
    /\ metrics = NoMetrics
    /\ metrics' = assess_quality(df)
    /\ UNCHANGED <<df, inp, op, args, trace, printed, err, ageIn, ageOut>>
    /\ UNCHANGED sessionVars

Next == CleanData \/ HandleMissingValues \/ AssessQuality

Spec == Init /\ [][Next]_vars

----------------------------------------------------------------------------
(* The UDF applied to a two-row age column, one call per row *)

AgeCells == {NULL} \cup {Cell(a) : a \in MinAge..MaxAge}

InitAge ==
    /\ df = [schema |-> SchemaA, rows |-> <<>>]
    /\ inp = df
    /\ op = "load"
    /\ args = NoArgs
    /\ trace = NoTrace
    /\ printed = <<>>
    /\ err = ""
    /\ metrics = NoMetrics
    /\ ageIn \in [1..UdfRows -> AgeCells]
    /\ ageOut = <<>>
    /\ catalog = NoCatalog
    /\ registered = NoCatalog
    /\ files = NoFiles
    /\ results = NoResults

CategorizeAge ==
    /\ ageIn # <<>>
    /\ ageOut = <<>>
    /\ ageOut' = [i \in DOMAIN ageIn |-> categorize_age(ageIn[i])]
    /\ UNCHANGED <<df, inp, op, args, trace, printed, err, metrics, ageIn>>
    /\ UNCHANGED sessionVars

NextAge == CategorizeAge

SpecAge == InitAge /\ [][NextAge]_vars

----------------------------------------------------------------------------
(* One session: any sequence of register_table calls on its catalog *)

CatalogTables ==
    {[schema |-> SchemaA, rows |-> BagOf(<<r>>)] :
        r \in {q \in RowsA : q.age = Cell(1)}}

InitCatalog ==
    /\ df = [schema |-> SchemaA, rows |-> <<>>]
    /\ inp = df
    /\ op = "load"
    /\ args = NoArgs
    /\ trace = NoTrace
    /\ printed = <<>>
    /\ err = ""
    /\ metrics = NoMetrics
    /\ ageIn = <<>>
    /\ ageOut = <<>>
    /\ catalog = NoCatalog
    /\ registered = NoCatalog
    /\ files = NoFiles
    /\ results = NoResults

RegisterTable ==
    /\ \E t \in CatalogTables, table_name \in TableNames, replace \in BOOLEAN :
          LET res == register_table(catalog, t, table_name, replace)
          IN  /\ op' = "register_table"
              /\ args' = [df |-> t, table_name |-> table_name,
                          replace |-> replace]
              /\ trace' = [catalog |-> catalog]
              /\ catalog' = res.catalog
              /\ err' = res.err
              /\ printed' = res.printed
              /\ registered' = IF res.err = ""
                               THEN (table_name :> t) @@ registered
                               ELSE registered
    /\ UNCHANGED <<df, inp, metrics, ageIn, ageOut, files, results>>

NextCatalog == RegisterTable

SpecCatalog == InitCatalog /\ [][NextCatalog]_vars

----------------------------------------------------------------------------
(* A file system and one load_dataset call on it *)

Paths == {"data/metadata.csv", "data/metadata.parquet"}

FormatTags == SupportedFormats \cup {"CSV", "xml"}

Modes == {"PERMISSIVE", "DROPMALFORMED"}

Schemas == {NoSchema, SchemaA, SchemaText}

FileTables ==
    {[schema |-> SchemaA, rows |-> BagOf(s)] :
        s \in {<<>>} \cup
              {<<[age |-> a, finding |-> f]>> :
                  a \in {NULL, Cell(1)}, f \in {NULL, Cell("COVID")}}}

Files == {[format |-> f, table |-> t] : f \in {"csv", "parquet"}, t \in FileTables}

FileSystems == UNION {[D -> Files] : D \in SUBSET Paths}

InitLoad ==
    /\ df = NoTable
    /\ inp = NoTable
    /\ op = "start"
    /\ args = NoArgs
    /\ trace = NoTrace
    /\ printed = <<>>
    /\ err = ""
    /\ metrics = NoMetrics
    /\ ageIn = <<>>
    /\ ageOut = <<>>
    /\ catalog = NoCatalog
    /\ registered = NoCatalog
    /\ files \in FileSystems
    /\ results = NoResults

LoadDataset ==
    /\ op = "start"
    /\ \E file_path \in Paths, format \in FormatTags, header \in BOOLEAN,
          infer_schema \in BOOLEAN, schema \in Schemas, mode \in Modes :
          LET res == load_dataset(files, file_path, format, header,
                                  infer_schema, schema, mode)
          IN  /\ op' = "load_dataset"
              /\ args' = [file_path |-> file_path, format |-> format,
                          header |-> header, infer_schema |-> infer_schema,
                          schema |-> schema, mode |-> mode]
              /\ df' = res.df
              /\ err' = res.err
              /\ trace' = [reads |-> res.reads]
    /\ inp' = NoTable
    /\ printed' = <<>>
    /\ UNCHANGED <<metrics, ageIn, ageOut>>
    /\ UNCHANGED sessionVars

NextLoad == LoadDataset

SpecLoad == InitLoad /\ [][NextLoad]_vars

----------------------------------------------------------------------------
(* A table registered as "patients" and one execute_standard_analytics call *)

SchemaP == <<[name |-> "finding", type |-> "string"],
             [name |-> "age", type |-> "int"],
             [name |-> "sex", type |-> "string"],
             [name |-> "date", type |-> "date"],
             [name |-> "view", type |-> "string"]>>

\* the patients of age a of the largest group
PatientRow(a) ==
    [finding |-> Cell("COVID-19"),
     age |-> Cell(a),
     sex |-> IF a % 2 = 1 THEN Cell("M") ELSE Cell("F"),
     date |-> IF a % 3 = 0 THEN NULL
              ELSE Cell([year |-> 2020, month |-> 1 + (a % 2), day |-> a]),
     view |-> Cell("PA")]

ExtraRows ==
    {[finding |-> NULL, age |-> NULL, sex |-> NULL, date |-> NULL, view |-> NULL],
     [finding |-> Cell("Pneumonia"), age |-> Cell(1), sex |-> Cell("F"),
      date |-> Cell([year |-> 2021, month |-> 1, day |-> 1]),
      view |-> Cell("AP")]}

PatientBags ==
    {[r \in {PatientRow(a) : a \in 1..NAges} \cup X |->
         IF r \in X THEN 1
         ELSE f[CHOOSE a \in 1..NAges : PatientRow(a) = r]] :
        f \in [1..NAges -> 1..MaxFreq],
        X \in {{}} \cup {{x} : x \in ExtraRows}}

AnalyticsTables ==
    {[schema |-> SchemaP, rows |-> b] : b \in PatientBags} \cup CatalogTables

InitAnalytics ==
    /\ df \in AnalyticsTables
    /\ inp = df
    /\ op = "register_table"
    /\ args = [df |-> df, table_name |-> "patients", replace |-> TRUE]
    /\ trace = [catalog |-> NoCatalog]
    /\ printed = register_table(NoCatalog, df, "patients", TRUE).printed
    /\ err = ""
    /\ metrics = NoMetrics
    /\ ageIn = <<>>
    /\ ageOut = <<>>
    /\ catalog = register_table(NoCatalog, df, "patients", TRUE).catalog
    /\ registered = catalog
    /\ files = NoFiles
    /\ results = NoResults

ExecuteStandardAnalytics ==
    /\ op = "register_table"
    /\ \E table_name \in TableNames :
          LET res == execute_standard_analytics(catalog, table_name)
          IN  /\ op' = "execute_standard_analytics"
              /\ args' = [table_name |-> table_name]
              /\ results' = res.results
              /\ err' = res.err
              /\ trace' = [done |-> res.done]
    /\ printed' = <<>>
    /\ UNCHANGED <<df, inp, metrics, ageIn, ageOut, catalog, registered, files>>

NextAnalytics == ExecuteStandardAnalytics

SpecAnalytics == InitAnalytics /\ [][NextAnalytics]_vars

----------------------------------------------------------------------------
(* Properties *)

HasMetrics == metrics # NoMetrics /\ metrics.error = ""

Cleaned == op = "clean_data" /\ err = ""

Imputed == op = "handle_missing_values" /\ err = ""

\* number of distinct rows of a table
DistinctRows(t) == Cardinality(DOMAIN t.rows)

OnlyDuplicateRemoval ==
    /\ Cleaned
    /\ args.remove_duplicates
    /\ args.remove_outliers = <<>>
    /\ args.standardize_categories = <<>>

\* C1: the duplicate-row count assess_quality reports is count(T) minus the
\* number of distinct rows of T; for the table returned by duplicate removal
\* alone it is 0, and clean_data reports as removed the duplicate count of
\* its input.
C1_DuplicateCount ==
    /\ HasMetrics =>
          metrics.duplicate_rows = Count(df) - DistinctRows(df)
    /\ OnlyDuplicateRemoval =>
          /\ Len(printed) = 1
          /\ printed[1].what = "duplicates"
          /\ printed[1].n = Count(inp) - DistinctRows(inp)
          /\ Count(df) = DistinctRows(df)
          /\ HasMetrics => metrics.duplicate_rows = 0

\* duplicate removal alone removed duplicates (one of them a row with a
\* NULL) and the returned table was assessed
C1_Witness ==
    /\ OnlyDuplicateRemoval
    /\ HasMetrics
    /\ printed[1].n > 0
    /\ \E r \in DOMAIN inp.rows :
          inp.rows[r] > 1 /\ \E c \in DOMAIN r : IsNull(r[c])
    /\ metrics.duplicate_rows = 0

\* the rows of t that pass the first k bounds of an outlier mapping
PassesFirst(r, rules, k) ==
    \A i \in 1..k :
        /\ ~IsNull(r[rules[i].column])
        /\ rules[i].lo <= Val(r[rules[i].column])
        /\ Val(r[rules[i].column]) <= rules[i].hi

CountPassing(t, rules, k) ==
    SumOver(t.rows, {r \in DOMAIN t.rows : PassesFirst(r, rules, k)})

OutlierPrints == SelectSeq(printed, LAMBDA e : e.what = "outliers")

\* C2: after the outlier step every remaining row has, in each configured
\* column, a non-null value inside the inclusive range; the count reported
\* for a column is measured against the table already filtered by the
\* earlier bounds, so the reported counts add up to the rows removed.
C2_OutlierBounds ==
    (Cleaned /\ args.remove_outliers # <<>>) =>
        LET rules == args.remove_outliers
            before == trace.afterDup
            after == trace.afterOutliers
        IN  /\ \A r \in DOMAIN after.rows \cup DOMAIN df.rows :
                  PassesFirst(r, rules, Len(rules))
            /\ \A r \in DOMAIN before.rows :
                  PassesFirst(r, rules, Len(rules)) =>
                      /\ r \in DOMAIN after.rows
                      /\ after.rows[r] = before.rows[r]
            /\ Len(OutlierPrints) = Len(rules)
            /\ \A i \in DOMAIN rules :
                  /\ OutlierPrints[i].column = rules[i].column
                  /\ OutlierPrints[i].n =
                        CountPassing(before, rules, i - 1)
                            - CountPassing(before, rules, i)
            /\ SeqSum([i \in DOMAIN rules |-> OutlierPrints[i].n])
                  = Count(before) - Count(after)

\* two bounds, each removed rows; a row with a NULL and a row equal to the
\* upper bound were tested
C2_Witness ==
    /\ Cleaned
    /\ Len(args.remove_outliers) = 2
    /\ OutlierPrints[1].n > 0
    /\ OutlierPrints[2].n > 0
    /\ \E r \in DOMAIN trace.afterDup.rows :
          IsNull(r[args.remove_outliers[1].column])
    /\ \E r \in DOMAIN trace.afterOutliers.rows :
          Val(r[args.remove_outliers[1].column]) = args.remove_outliers[1].hi

ValidThreshold ==
    /\ op = "handle_missing_values"
    /\ args.drop_threshold # NoThreshold
    /\ 0 <= args.drop_threshold[1]
    /\ args.drop_threshold[1] <= args.drop_threshold[2]

\* nulls(r) / columns compared with the threshold num / den
NullsOf(r) == Cardinality({c \in DOMAIN r : IsNull(r[c])})

FractionEquals(r, thr) == NullsOf(r) * thr[2] = thr[1] * Cardinality(DOMAIN r)

FractionExceeds(r, thr) == NullsOf(r) * thr[2] > thr[1] * Cardinality(DOMAIN r)

\* C3: with a threshold t in [0,1], a row whose null fraction equals t is
\* retained, every row whose fraction exceeds t is removed, and no row with
\* a fraction of at most t is removed by the threshold step.
C3_ThresholdInclusive ==
    ValidThreshold =>
        LET thr == args.drop_threshold
            kept == trace.afterThreshold
        IN  \A r \in DOMAIN inp.rows :
              /\ FractionEquals(r, thr) => r \in DOMAIN kept.rows
              /\ FractionExceeds(r, thr) => r \notin DOMAIN kept.rows
              /\ ~FractionExceeds(r, thr) =>
                    r \in DOMAIN kept.rows /\ kept.rows[r] = inp.rows[r]

\* threshold 1/2: a row with one NULL of two columns was kept and a row
\* with two NULLs was removed
C3_Witness ==
    /\ ValidThreshold
    /\ args.drop_threshold = <<1, 2>>
    /\ \E r \in DOMAIN inp.rows :
          FractionEquals(r, args.drop_threshold)
          /\ NullsOf(r) = 1
          /\ r \in DOMAIN trace.afterThreshold.rows
    /\ \E r \in DOMAIN inp.rows :
          FractionExceeds(r, args.drop_threshold)
          /\ r \notin DOMAIN trace.afterThreshold.rows

\* the most frequent values among the non-null values of column c
MostFrequent(t, c) ==
    {v \in NonNull(t, c) :
        \A w \in NonNull(t, c) :
            GroupCount(t, c, Cell(w)) <= GroupCount(t, c, Cell(v))}

\* C4: with strategy "mode", every numeric column with a non-null value has
\* all its nulls replaced by the most frequent of its non-null values,
\* whatever the number of nulls in the column.
C4_ModeFill ==
    (Imputed /\ args.strategy = "mode") =>
        LET t2 == trace.afterFill
        IN  \A c \in Range(NumericColumns(t2)) :
              NonNull(t2, c) # {} =>
                  /\ GroupCount(df, c, NULL) = 0
                  /\ \E v \in MostFrequent(t2, c) :
                        GroupCount(df, c, Cell(v)) =
                            GroupCount(t2, c, Cell(v)) + GroupCount(t2, c, NULL)

\* the row r with the explicit fill values in its null cells
ExplicitlyFilled(r, fv) ==
    [c \in DOMAIN r |->
        IF c \in DOMAIN fv /\ IsNull(r[c]) THEN Cell(fv[c]) ELSE r[c]]

NoNullOutside(r, fv) == \A c \in DOMAIN r \ DOMAIN fv : ~IsNull(r[c])

\* C5: the steps run in the order threshold, explicit fills, strategy: the
\* threshold looks at the nulls of the input table; in a column named in
\* fill_values every null that survives the threshold becomes the explicit
\* fill value (not the statistic, not zero), and under strategy "drop" such
\* a null does not remove the row.
C5_FillBeforeStrategy ==
    Imputed =>
        LET fv == args.fill_values
            kept == trace.afterThreshold
        IN  /\ \A r \in DOMAIN inp.rows :
                  r \in DOMAIN kept.rows <=>
                      ~(ValidThreshold /\ FractionExceeds(r, args.drop_threshold))
            /\ args.strategy # "drop" =>
                  \A c \in DOMAIN fv :
                      /\ GroupCount(df, c, NULL) = 0
                      /\ GroupCount(df, c, Cell(fv[c])) =
                            GroupCount(kept, c, NULL)
                                + GroupCount(kept, c, Cell(fv[c]))
                      /\ \A x \in Groups(kept, c) \ {NULL, Cell(fv[c])} :
                            GroupCount(df, c, x) = GroupCount(kept, c, x)
            /\ args.strategy = "drop" =>
                  /\ \A r \in DOMAIN kept.rows :
                        NoNullOutside(r, fv) =>
                            ExplicitlyFilled(r, fv) \in DOMAIN df.rows
                  /\ Count(df) =
                        SumOver(kept.rows,
                                {r \in DOMAIN kept.rows : NoNullOutside(r, fv)})

\* threshold 1/2, age filled with 9, strategy "zero": a row with only NULLs
\* was dropped by the threshold and a surviving NULL age became 9
C5_Witness ==
    /\ Imputed
    /\ args.strategy = "zero"
    /\ args.drop_threshold = <<1, 2>>
    /\ "age" \in DOMAIN args.fill_values
    /\ \E r \in DOMAIN inp.rows :
          IsNull(r["age"]) /\ r \notin DOMAIN trace.afterThreshold.rows
    /\ \E r \in DOMAIN trace.afterThreshold.rows : IsNull(r["age"])
    /\ \E r \in DOMAIN df.rows : r["age"] = Cell(9)

NoNullCell(t) == \A r \in DOMAIN t.rows : \A c \in DOMAIN r : ~IsNull(r[c])

\* C6: the completeness percentage assess_quality returns lies in [0,100]
\* and is 100 exactly when no column has a null in any row (hundredths:
\* 10000 is 100.00).
C6_Completeness ==
    HasMetrics =>
        /\ metrics.completeness_percentage \in 0..10000
        /\ metrics.completeness_percentage = 10000 <=> NoNullCell(df)

BandRank(b) == IF b = Cell("Junior") THEN 1 ELSE IF b = Cell("Middle") THEN 2 ELSE 3

\* C7: categorize_age gives "Junior" below 30, "Middle" from 30 to 59 and
\* "Senior" from 60 on, an undefined band for an undefined age, and is
\* monotonic in the order Junior < Middle < Senior.
C7_AgeBands ==
    ageOut # <<>> =>
        /\ DOMAIN ageOut = DOMAIN ageIn
        /\ \A i \in DOMAIN ageIn :
              IF IsNull(ageIn[i]) THEN IsNull(ageOut[i])
              ELSE /\ Val(ageIn[i]) < 30 => ageOut[i] = Cell("Junior")
                   /\ (30 <= Val(ageIn[i]) /\ Val(ageIn[i]) < 60) =>
                          ageOut[i] = Cell("Middle")
                   /\ Val(ageIn[i]) >= 60 => ageOut[i] = Cell("Senior")
        /\ \A i, j \in DOMAIN ageIn :
              (~IsNull(ageIn[i]) /\ ~IsNull(ageIn[j])
                  /\ Val(ageIn[i]) < Val(ageIn[j])) =>
                  BandRank(ageOut[i]) <= BandRank(ageOut[j])

\* the ages 59 and 60 were categorized: Middle and Senior
C7_Witness ==
    /\ Len(ageIn) >= 2
    /\ ageIn[1] = Cell(59)
    /\ ageIn[2] = Cell(60)
    /\ Len(ageOut) >= 2
    /\ ageOut[1] = Cell("Middle")
    /\ ageOut[2] = Cell("Senior")

\* C8: the table clean_data and handle_missing_values return has exactly
\* the columns of the input table, and the threshold step only removes rows.
C8_ColumnsUnchanged ==
    /\ (Cleaned \/ Imputed) =>
          /\ ColumnSet(df) = ColumnSet(inp)
          /\ Len(df.schema) = Len(inp.schema)
          /\ \A r \in DOMAIN df.rows : DOMAIN r = ColumnSet(inp)
    /\ op = "handle_missing_values" =>
          LET kept == trace.afterThreshold
          IN  /\ ColumnSet(kept) = ColumnSet(inp)
              /\ \A r \in DOMAIN kept.rows :
                    /\ DOMAIN r = ColumnSet(inp)
                    /\ r \in DOMAIN inp.rows
                    /\ kept.rows[r] = inp.rows[r]

\* clean_data rewrote values of a table under a rule set that also names an
\* absent column
C8_Witness ==
    /\ Cleaned
    /\ df.rows # inp.rows
    /\ \E i \in DOMAIN args.standardize_categories :
          args.standardize_categories[i].column \notin ColumnSet(inp)
    /\ \E r \in DOMAIN df.rows : r \notin DOMAIN trace.afterOutliers.rows

\* a rule applied to one cell
RuleMatches(rule, x) ==
    /\ ~IsNull(x)
    /\ IF rule.pattern.kind = "pred"
       THEN rule.pattern.v = "upper_contains_covid"
            /\ Val(x) \in UpperContainsCovid
       ELSE Val(x) = rule.pattern.v

\* the rules of a column applied one after another to the current value
RECURSIVE StdValue(_, _)
StdValue(x, rules) ==
    IF rules = <<>> THEN x
    ELSE StdValue(IF RuleMatches(Head(rules), x) THEN Cell(Head(rules).value)
                  ELSE x,
                  Tail(rules))

StdRow(r, cats) ==
    [c \in DOMAIN r |->
        IF \E i \in DOMAIN cats : cats[i].column = c
        THEN StdValue(r[c],
                 cats[CHOOSE i \in DOMAIN cats : cats[i].column = c].rules)
        ELSE r[c]]

\* C9: standardization applies the rules of a column in mapping order to
\* the current value (predicate rules replace what they match, literal
\* rules exact matches, a later rule may overwrite an earlier replacement,
\* unmatched values stay); COVID variants become "COVID-19" and
\* "Pneumonia" stays; the row count does not change.
C9_Standardization ==
    (Cleaned /\ args.standardize_categories # <<>>) =>
        LET cats == args.standardize_categories
            before == trace.afterOutliers
        IN  /\ Count(df) = Count(before)
            /\ \A q \in DOMAIN df.rows
                        \cup {StdRow(r, cats) : r \in DOMAIN before.rows} :
                  /\ q \in DOMAIN df.rows
                  /\ df.rows[q] =
                        SumOver(before.rows,
                            {r \in DOMAIN before.rows : StdRow(r, cats) = q})
            /\ (cats = <<Cat("finding", <<CovidRule>>)>>
                    /\ "finding" \in ColumnSet(inp)) =>
                  /\ \A r \in DOMAIN df.rows :
                        r["finding"] \notin {Cell("COVID"), Cell("Covid-19")}
                  /\ GroupCount(df, "finding", Cell("COVID-19")) =
                        GroupCount(before, "finding", Cell("COVID"))
                        + GroupCount(before, "finding", Cell("Covid-19"))
                  /\ GroupCount(df, "finding", Cell("Pneumonia")) =
                        GroupCount(before, "finding", Cell("Pneumonia"))
                  /\ GroupCount(df, "finding", NULL) =
                        GroupCount(before, "finding", NULL)

\* "COVID" -> "Covid-19" then "Covid-19" -> "COVID-19": a "COVID" row ended
\* as "COVID-19" next to an unchanged "Pneumonia" row
C9_Witness ==
    /\ Cleaned
    /\ args.standardize_categories =
          <<Cat("finding", <<Rule(Lit("COVID"), "Covid-19"),
                             Rule(Lit("Covid-19"), "COVID-19")>>)>>
    /\ "finding" \in ColumnSet(inp)
    /\ \E r \in DOMAIN trace.afterOutliers.rows : r["finding"] = Cell("COVID")
    /\ \E r \in DOMAIN df.rows : r["finding"] = Cell("Pneumonia")
    /\ \A r \in DOMAIN df.rows :
          r["finding"] \in {Cell("COVID-19"), Cell("Pneumonia")}

AbsentOutlierColumn ==
    \E i \in DOMAIN args.remove_outliers :
        args.remove_outliers[i].column \notin ColumnSet(inp)

PresentCategories ==
    SelectSeq(args.standardize_categories,
              LAMBDA e : e.column \in ColumnSet(inp))

\* C10: a standardization rule set for an absent column is skipped without
\* an error, the table is unchanged by it and the rule sets of the present
\* columns are still applied; an outlier bound on an absent column fails.
C10_AbsentColumns ==
    op = "clean_data" =>
        /\ err = "AnalysisException" <=> AbsentOutlierColumn
        /\ err = "" <=> ~AbsentOutlierColumn
        /\ err # "" => df = inp
        /\ err = "" =>
              /\ df = clean_data(inp, args.remove_duplicates,
                                 args.remove_outliers, PresentCategories).df
              /\ PresentCategories = <<>> => df = trace.afterOutliers

\* a rule set for the absent column "view" came before one for "finding",
\* and the "finding" rules rewrote a row
C10_Witness ==
    /\ Cleaned
    /\ Len(args.standardize_categories) = 2
    /\ args.standardize_categories[1].column \notin ColumnSet(inp)
    /\ args.standardize_categories[2].column \in ColumnSet(inp)
    /\ df # trace.afterOutliers
    /\ \E r \in DOMAIN df.rows : r["finding"] = Cell("COVID-19")

\* the statistic in hundredths, NULL only when the statistic itself is NULL
RoundedMean(t, c) ==
    IF Mean(t, c) = NoStat THEN NULL
    ELSE Cell(RoundDiv(100 * Mean(t, c)[1], Mean(t, c)[2]))

RoundedStddev(t, c) ==
    IF Variance(t, c) = NoStat THEN NULL
    ELSE IF Variance(t, c)[1] = 0 THEN Cell(0)
    ELSE Cell(RoundSqrt100(Variance(t, c)[1], Variance(t, c)[2]))

\* C11: for every numeric column assess_quality reports mean and stddev
\* rounded to 2 decimals whenever the statistic is defined, a value of 0
\* included, and reports it as undefined only when the statistic is NULL.
C11_RoundedStatistics ==
    HasMetrics =>
        \A c \in Range(NumericColumns(df)) :
            /\ metrics.numeric_summary[c].mean = RoundedMean(df, c)
            /\ metrics.numeric_summary[c].stddev = RoundedStddev(df, c)

Registered == op = "register_table"

\* C12: replace=True always succeeds and binds the name to the given table,
\* and repeating the call changes nothing; replace=False succeeds exactly
\* when the name was unbound, and a failed call leaves the binding of the
\* name and of every other name as they were; every bound name holds the
\* table of its last successful registration.
C12_Registration ==
    Registered =>
        LET before == trace.catalog
            n == args.table_name
        IN  /\ args.replace => err = ""
            /\ ~args.replace => (err = "" <=> n \notin DOMAIN before)
            /\ err = "" => n \in DOMAIN catalog /\ catalog[n] = args.df
            /\ err # "" => DOMAIN catalog = DOMAIN before
                           /\ catalog[n] = before[n]
            /\ \A m \in TableNames \ {n} :
                   /\ m \in DOMAIN catalog <=> m \in DOMAIN before
                   /\ m \in DOMAIN before => catalog[m] = before[m]
            /\ args.replace =>
                   register_table(catalog, args.df, n, TRUE).catalog = catalog
            /\ DOMAIN catalog = DOMAIN registered
            /\ \A m \in DOMAIN catalog : catalog[m] = registered[m]

\* a replace=False call on a bound name, with another table, has failed
\* while another name is bound too
C12_Witness ==
    /\ Registered
    /\ ~args.replace
    /\ err = "AnalysisException"
    /\ catalog[args.table_name] # args.df
    /\ DOMAIN catalog = TableNames

Loaded == op = "load_dataset"

\* C13: load_dataset raises the not-found error whenever the path does not
\* exist, whatever the format tag; on an existing path it raises the
\* unsupported-format error when the tag is none of csv, parquet, json,
\* orc, avro; in both failures no table is returned and no read was made.
C13_LoadFailures ==
    Loaded =>
        /\ args.file_path \notin DOMAIN files => err = "FileNotFoundError"
        /\ (args.file_path \in DOMAIN files /\ args.format \notin SupportedFormats)
               => err = "ValueError"
        /\ err \in {"FileNotFoundError", "ValueError"}
               => df = NoTable /\ trace.reads = <<>>

\* a missing path was asked for with an unsupported format tag
C13_Witness ==
    /\ Loaded
    /\ args.file_path \notin DOMAIN files
    /\ args.format = "xml"
    /\ err = "FileNotFoundError"
    /\ files # NoFiles

Analysed == op = "execute_standard_analytics"

\* WHERE rn <= 5
TopN == 5

\* the patients of finding f and age a
AgeFrequency(t, f, a) ==
    SumOver(t.rows, {r \in DOMAIN t.rows : r.finding = f /\ r.age = a})

AgesOf(t, f) == {r.age : r \in {q \in DOMAIN t.rows : q.finding = f}}

\* C14: on a registered table that has the columns of the queries,
\* execute_standard_analytics returns under top_ages_per_diagnosis, for
\* every finding, the TopN most frequent ages when the finding has more,
\* else all of them, each once with its frequency: no returned age is less
\* frequent than an excluded age of the finding, and ages tied with the
\* last returned one are left out beyond TopN rows.
C14_TopAges ==
    (/\ Analysed
     /\ args.table_name \in DOMAIN catalog
     /\ ColumnSet(catalog[args.table_name]) = Range(Columns([schema |-> SchemaP])))
    =>
        /\ err = ""
        /\ results # NoResults
        /\ LET t == catalog[args.table_name]
               top == results.top_ages_per_diagnosis.rows
           IN  \A f \in Groups(t, "finding") :
                 LET ret == {r \in DOMAIN top : r.finding = f}
                     out == AgesOf(t, f) \ {r.age : r \in ret}
                 IN  /\ Cardinality(ret) <= TopN
                     /\ Cardinality(AgesOf(t, f)) <= TopN => out = {}
                     /\ Cardinality(AgesOf(t, f)) > TopN => Cardinality(ret) = TopN
                     /\ \A r \in ret :
                           /\ top[r] = 1
                           /\ r.age \in AgesOf(t, f)
                           /\ r.patient_count = Cell(AgeFrequency(t, f, r.age))
                           /\ \A a \in out :
                                 AgeFrequency(t, f, r.age) >= AgeFrequency(t, f, a)

====
